---- MODULE Spec2Model ----
(***************************************************************************)
(* A model of src/src/path.rs: the path, generic-argument and qualified-   *)
(* path printers of impl Printer.  A printer owns one output buffer, `out`, *)
(* and every printing method appends tokens to it.  Each method is an       *)
(* operator that returns the tokens it appends, computed as the code        *)
(* computes them; each action applies one method to one input on a fresh    *)
(* buffer and records the input it was given.                               *)
(***************************************************************************)
EXTENDS Integers, Sequences, FiniteSets

\* ------------------------------------------------------------------ bounds
\* longest generic-argument list
MaxArgs == 4
\* longest path, in segments
MaxSegs == 3
\* longest input list of a parenthesized argument form
MaxInputs == 2

\* ------------------------------------------------------- the syntax trees
Lifetimes == {"'a", "'b"}
Types == {"T", "U"}
AssocIdents == {"Item"}

\* syn::Expr, by the variants generic_argument tells apart
Exprs ==
    { [variant |-> "Lit", node |-> "1"],
      [variant |-> "Block", node |-> "{ N }"],
      [variant |-> "Binary", node |-> "N + 1"],
      [variant |-> "Path", node |-> "N"] }

BoundLists == { <<>>, <<"Copy">>, <<"Copy", "Send">> }

\* syn::GenericArgument
GenericArguments ==
    { [variant |-> "Lifetime", lifetime |-> l] : l \in Lifetimes }
    \cup { [variant |-> "Type", ty |-> "T"] }
    \cup { [variant |-> "Const", expr |-> e] :
             e \in { x \in Exprs : x.variant # "Path" } }
    \cup { [variant |-> "Binding", ident |-> "Item", ty |-> "U"] }
    \cup { [variant |-> "Constraint", ident |-> "Item",
            bounds |-> <<"Copy", "Send">>] }

\* every generic argument generic_argument is applied to on its own
AllGenericArguments ==
    { [variant |-> "Lifetime", lifetime |-> l] : l \in Lifetimes }
    \cup { [variant |-> "Type", ty |-> t] : t \in Types }
    \cup { [variant |-> "Const", expr |-> e] : e \in Exprs }
    \cup { [variant |-> "Binding", ident |-> i, ty |-> t] :
             i \in AssocIdents, t \in Types }
    \cup { [variant |-> "Constraint", ident |-> i, bounds |-> b] :
             i \in AssocIdents, b \in BoundLists }

SeqsUpTo(S, n) == UNION { [1..k -> S] : k \in 0..n }

\* syn::AngleBracketedGenericArguments
AngleBracketeds ==
    [ variant : {"AngleBracketed"}, colon2_token : BOOLEAN,
      args : SeqsUpTo(GenericArguments, MaxArgs) ]

\* syn::ParenthesizedGenericArguments; output is a syn::ReturnType
Parenthesizeds ==
    [ variant : {"Parenthesized"}, inputs : SeqsUpTo(Types, MaxInputs),
      output : {"Default", "T"} ]

NoArguments == [variant |-> "None"]

Lt(l) == [variant |-> "Lifetime", lifetime |-> l]
Tp(t) == [variant |-> "Type", ty |-> t]
Cn(v, n) == [variant |-> "Const", expr |-> [variant |-> v, node |-> n]]
Bd(i, t) == [variant |-> "Binding", ident |-> i, ty |-> t]
Ct(i, b) == [variant |-> "Constraint", ident |-> i, bounds |-> b]
Angle(c, a) == [variant |-> "AngleBracketed", colon2_token |-> c, args |-> a]

\* the path segments paths are built from: syn::PathSegment
Segments ==
    { [ident |-> "A", arguments |-> NoArguments],
      [ident |-> "B", arguments |-> NoArguments],
      [ident |-> "V", arguments |->
          Angle(FALSE, << Bd("Item", "U"), Cn("Binary", "N + 1"), Tp("T"),
                          Lt("'a") >>)],
      [ident |-> "W", arguments |->
          Angle(TRUE, << Ct("Item", <<"Copy">>), Cn("Lit", "1") >>)],
      [ident |-> "F", arguments |->
          [variant |-> "Parenthesized", inputs |-> <<"T", "U">>,
           output |-> "T"]] }

\* syn::Path
Paths == [ leading_colon : BOOLEAN, segments : SeqsUpTo(Segments, MaxSegs) ]

\* Option<syn::QSelf>; positions run past the longest path
NoQSelf == [variant |-> "None"]
QSelfs ==
    {NoQSelf}
    \cup [ variant : {"Some"}, ty : {"T"}, position : 0..(MaxSegs + 1) ]

\* ------------------------------------------------ the output primitives
\* Printer::word and the sibling printers append to the output buffer; a
\* token records which of them was called and on what.
Tok(k, v) == [k |-> k, v |-> v]
word(s) == << Tok("word", s) >>
ident(i) == << Tok("ident", i) >>
ty(t) == << Tok("ty", t) >>
lifetime(l) == << Tok("lifetime", l) >>
expr(e) == << Tok("expr", e.node) >>
expr_lit(e) == << Tok("expr_lit", e.node) >>
expr_block(e) == << Tok("expr_block", e.node) >>
type_param_bound(b) == << Tok("type_param_bound", b) >>
return_type(o) == << Tok("return_type", o) >>

\* IterDelimited::delimited: each element with its is_first / is_last flags
Delimited(s) ==
    [ i \in 1..Len(s) |->
        [value |-> s[i], is_first |-> i = 1, is_last |-> i = Len(s)] ]

\* Iterator::take on a by_ref iterator: the first n elements, or all of them
Take(s, n) == SubSeq(s, 1, IF n < Len(s) THEN n ELSE Len(s))
\* mutant: the look-ahead for is_last takes one more element from the by_ref
\* iterator, which the second loop then never sees
Rest_peeked(s, n) ==
    SubSeq(s, (IF n < Len(s) THEN n ELSE Len(s)) + (IF n > 0 THEN 2 ELSE 1),
           Len(s))

\* what the by_ref iterator still holds once n of its elements were taken
Rest(s, n) == SubSeq(s, (IF n < Len(s) THEN n ELSE Len(s)) + 1, Len(s))

min(a, b) == IF a < b THEN a ELSE b

\* --------------------------------------------------------- the printers
binding(b) == ident(b.ident) \o word("=") \o ty(b.ty)

RECURSIVE constraint_bounds(_, _)
constraint_bounds(bounds, i) ==
    IF i > Len(bounds) THEN <<>>
    ELSE type_param_bound(bounds[i]) \o word("+")
         \o constraint_bounds(bounds, i + 1)

constraint(c) ==
    ident(c.ident) \o word(":") \o constraint_bounds(c.bounds, 1)

\* mutant: no error correction, a Const expression is printed as it is
generic_argument_unbraced(arg) ==
    CASE arg.variant = "Lifetime" -> lifetime(arg.lifetime)
      [] arg.variant = "Type" -> ty(arg.ty)
      [] arg.variant = "Binding" -> binding(arg)
      [] arg.variant = "Constraint" -> constraint(arg)
      [] arg.variant = "Const" ->
            CASE arg.expr.variant = "Lit" -> expr_lit(arg.expr)
              [] arg.expr.variant = "Block" -> expr_block(arg.expr)
              [] OTHER -> expr(arg.expr)

generic_argument(arg) ==
    CASE arg.variant = "Lifetime" -> lifetime(arg.lifetime)
      [] arg.variant = "Type" -> ty(arg.ty)
      [] arg.variant = "Binding" -> binding(arg)
      [] arg.variant = "Constraint" -> constraint(arg)
      [] arg.variant = "Const" ->
            CASE arg.expr.variant = "Lit" -> expr_lit(arg.expr)
              [] arg.expr.variant = "Block" -> expr_block(arg.expr)
              [] OTHER -> word("{") \o expr(arg.expr) \o word("}")

\* the match arms of the three loops of angle_bracketed_generic_arguments
FirstLoopArm(arg) == arg.variant = "Lifetime"
\* mutant: the second loop prints the types only
SecondLoopArm_types_only(arg) == arg.variant = "Type"
SecondLoopArm(arg) == arg.variant \in {"Type", "Const"}
ThirdLoopArm(arg) == arg.variant \in {"Binding", "Constraint"}

\* mutant: no comma after the last argument of the list
RECURSIVE args_loop_no_trailing(_, _, _)
args_loop_no_trailing(args, i, loop) ==
    IF i > Len(args) THEN <<>>
    ELSE LET arm == CASE loop = 1 -> FirstLoopArm(args[i])
                      [] loop = 2 -> SecondLoopArm(args[i])
                      [] loop = 3 -> ThirdLoopArm(args[i])
         IN (IF arm
             THEN generic_argument(args[i])
                  \o (IF i < Len(args) THEN word(",") ELSE <<>>)
             ELSE <<>>)
            \o args_loop_no_trailing(args, i + 1, loop)

\* one `for arg in &generic.args` loop, from index i on
RECURSIVE args_loop(_, _, _)
args_loop(args, i, loop) ==
    IF i > Len(args) THEN <<>>
    ELSE LET arm == CASE loop = 1 -> FirstLoopArm(args[i])
                      [] loop = 2 -> SecondLoopArm(args[i])
                      [] loop = 3 -> ThirdLoopArm(args[i])
         IN (IF arm THEN generic_argument(args[i]) \o word(",") ELSE <<>>)
            \o args_loop(args, i + 1, loop)

angle_bracketed_generic_arguments(generic) ==
    (IF generic.colon2_token THEN word("::") ELSE <<>>)
    \o word("<")
    \o args_loop(generic.args, 1, 1)
    \o args_loop(generic.args, 1, 2)
    \o args_loop(generic.args, 1, 3)
    \o word(">")

RECURSIVE parenthesized_inputs(_, _)
parenthesized_inputs(inputs, i) ==
    IF i > Len(inputs) THEN <<>>
    ELSE ty(inputs[i]) \o word(",") \o parenthesized_inputs(inputs, i + 1)

parenthesized_generic_arguments(arguments) ==
    word("(") \o parenthesized_inputs(arguments.inputs, 1) \o word(")")
    \o return_type(arguments.output)

path_arguments(arguments) ==
    CASE arguments.variant = "None" -> <<>>
      [] arguments.variant = "AngleBracketed" ->
            angle_bracketed_generic_arguments(arguments)
      [] arguments.variant = "Parenthesized" ->
            parenthesized_generic_arguments(arguments)

path_segment(segment) ==
    ident(segment.ident) \o path_arguments(segment.arguments)

\* mutant: the leading colon of the path is ignored
RECURSIVE path_loop_unrooted(_, _, _)
path_loop_unrooted(items, i, leading_colon) ==
    IF i > Len(items) THEN <<>>
    ELSE (IF ~items[i].is_first THEN word("::") ELSE <<>>)
         \o path_segment(items[i].value)
         \o path_loop_unrooted(items, i + 1, leading_colon)

\* the loop of path over the delimited segments, from index i on
RECURSIVE path_loop(_, _, _)
path_loop(items, i, leading_colon) ==
    IF i > Len(items) THEN <<>>
    ELSE (IF ~items[i].is_first \/ leading_colon THEN word("::") ELSE <<>>)
         \o path_segment(items[i].value)
         \o path_loop(items, i + 1, leading_colon)

path(p) == path_loop(Delimited(p.segments), 1, p.leading_colon)

\* mutant: the `>` is emitted after the first segment, not after the last
RECURSIVE qpath_first_loop_close_first(_, _, _)
qpath_first_loop_close_first(items, i, leading_colon) ==
    IF i > Len(items) THEN <<>>
    ELSE (IF ~items[i].is_first \/ leading_colon THEN word("::") ELSE <<>>)
         \o path_segment(items[i].value)
         \o (IF items[i].is_first THEN word(">") ELSE <<>>)
         \o qpath_first_loop_close_first(items, i + 1, leading_colon)

\* the loop of qpath over the first pos segments, delimited
RECURSIVE qpath_first_loop(_, _, _)
qpath_first_loop(items, i, leading_colon) ==
    IF i > Len(items) THEN <<>>
    ELSE (IF ~items[i].is_first \/ leading_colon THEN word("::") ELSE <<>>)
         \o path_segment(items[i].value)
         \o (IF items[i].is_last THEN word(">") ELSE <<>>)
         \o qpath_first_loop(items, i + 1, leading_colon)

\* mutant: the remaining segments are separated as path separates them
RECURSIVE qpath_rest_loop_delimited(_, _)
qpath_rest_loop_delimited(segments, i) ==
    IF i > Len(segments) THEN <<>>
    ELSE (IF i > 1 THEN word("::") ELSE <<>>) \o path_segment(segments[i])
         \o qpath_rest_loop_delimited(segments, i + 1)

\* the loop of qpath over the segments the iterator still holds
RECURSIVE qpath_rest_loop(_, _)
qpath_rest_loop(segments, i) ==
    IF i > Len(segments) THEN <<>>
    ELSE word("::") \o path_segment(segments[i])
         \o qpath_rest_loop(segments, i + 1)

\* mutant: the position is used as given, and the `>` is emitted after the
\* segment at that position
RECURSIVE qpath_unclamped_loop(_, _, _, _)
qpath_unclamped_loop(segments, i, pos, leading_colon) ==
    IF i > Len(segments) THEN <<>>
    ELSE (IF i > pos \/ i > 1 \/ leading_colon THEN word("::") ELSE <<>>)
         \o path_segment(segments[i])
         \o (IF i = pos THEN word(">") ELSE <<>>)
         \o qpath_unclamped_loop(segments, i + 1, pos, leading_colon)

qpath_unclamped(qself, p) ==
    IF qself.variant = "None" THEN path(p)
    ELSE word("<") \o ty(qself.ty)
         \o (IF qself.position > 0 THEN word("as") ELSE word(">"))
         \o qpath_unclamped_loop(p.segments, 1, qself.position,
                                 p.leading_colon)

\* mutant: without a QSelf the path is printed as position 0 prints it
qpath_none_as_rest(qself, p) ==
    IF qself.variant = "None" THEN qpath_rest_loop(p.segments, 1)
    ELSE LET pos == min(qself.position, Len(p.segments))
         IN word("<") \o ty(qself.ty)
            \o (IF pos > 0
                THEN word("as")
                     \o qpath_first_loop(Delimited(Take(p.segments, pos)), 1,
                                         p.leading_colon)
                ELSE word(">"))
            \o qpath_rest_loop(Rest(p.segments, pos), 1)

qpath(qself, p) ==
    IF qself.variant = "None" THEN path(p)
    ELSE LET pos == min(qself.position, Len(p.segments))
         IN word("<") \o ty(qself.ty)
            \o (IF pos > 0
                THEN word("as")
                     \o qpath_first_loop(Delimited(Take(p.segments, pos)), 1,
                                         p.leading_colon)
                ELSE word(">"))
            \o qpath_rest_loop(Rest(p.segments, pos), 1)

\* --------------------------------------------------------------- state
VARIABLES
    out,        \* the printer's output buffer
    op,         \* the method that was called, "new" before any call
    input,      \* the tree the method was given
    qself_in    \* qpath's qself argument

vars == << out, op, input, qself_in >>

Init ==
    /\ out = <<>>
    /\ op = "new"
    /\ input = NoArguments
    /\ qself_in = NoQSelf

\* one call of a printing method on the fresh printer
Call(name, tree, tokens) ==
    /\ op' = name
    /\ input' = tree
    /\ out' = out \o tokens

Path ==
    /\ op = "new"
    /\ \E p \in Paths : Call("path", p, path(p))
    /\ UNCHANGED qself_in

PathSegment ==
    /\ op = "new"
    /\ \E s \in Segments : Call("path_segment", s, path_segment(s))
    /\ UNCHANGED qself_in

QPath ==
    /\ op = "new"
    /\ \E q \in QSelfs, p \in Paths :
          Call("qpath", p, qpath(q, p)) /\ qself_in' = q

Next == Path \/ PathSegment \/ QPath

Spec == Init /\ [][Next]_vars

\* the generic-argument printers, on every argument list
GenericArgument ==
    /\ op = "new"
    /\ \E a \in AllGenericArguments :
          Call("generic_argument", a, generic_argument(a))
    /\ UNCHANGED qself_in

AngleBracketedGenericArguments ==
    /\ op = "new"
    /\ \E g \in AngleBracketeds :
          Call("angle_bracketed_generic_arguments", g,
               angle_bracketed_generic_arguments(g))
    /\ UNCHANGED qself_in

ParenthesizedGenericArguments ==
    /\ op = "new"
    /\ \E a \in Parenthesizeds :
          Call("parenthesized_generic_arguments", a,
               parenthesized_generic_arguments(a))
    /\ UNCHANGED qself_in

NextArgs ==
    GenericArgument \/ AngleBracketedGenericArguments
    \/ ParenthesizedGenericArguments

SpecArgs == Init /\ [][NextArgs]_vars

\* ------------------------------------------------- reading the output
\* the concatenation of a sequence of token sequences
RECURSIVE Flatten(_)
Flatten(ss) == IF ss = <<>> THEN <<>> ELSE Head(ss) \o Flatten(Tail(ss))

\* how many times the word w was emitted
Count(tokens, w) ==
    Cardinality({ i \in 1..Len(tokens) : tokens[i] = Tok("word", w) })

IsLifetime(arg) == arg.variant = "Lifetime"
IsTypeOrConst(arg) == arg.variant = "Type" \/ arg.variant = "Const"
IsBindingOrConstraint(arg) ==
    arg.variant = "Binding" \/ arg.variant = "Constraint"

\* the stable three-way partition of an argument list
StablePartition(args) ==
    SelectSeq(args, IsLifetime) \o SelectSeq(args, IsTypeOrConst)
    \o SelectSeq(args, IsBindingOrConstraint)

\* each argument of a list as generic_argument prints it, then a comma
ArgsWithCommas(args) ==
    Flatten([ i \in 1..Len(args) |-> generic_argument(args[i]) \o word(",") ])

\* -------------------------------------------------------------- claims

\* C1: angle_bracketed_generic_arguments emits the arguments as the stable
\* three-way partition of its input: the lifetimes in their original order,
\* then the types and consts in their original order, then the bindings and
\* constraints in their original order, each input argument exactly once.
C1_StablePartition ==
    op = "angle_bracketed_generic_arguments" =>
        LET open == IF input.colon2_token THEN 2 ELSE 1
            emitted == SubSeq(out, open + 1, Len(out) - 1)
        IN /\ Len(out) >= open + 1
           /\ emitted = ArgsWithCommas(StablePartition(input.args))
           /\ Count(out, ",") = Len(input.args)

\* C1 witness: [Const(1), Lifetime('a), Type(T), Binding(Item = U)] was
\* printed as <'a, 1, T, Item = U,>.
C1_Witness ==
    /\ op = "angle_bracketed_generic_arguments"
    /\ input.args = << Cn("Lit", "1"), Lt("'a"), Tp("T"), Bd("Item", "U") >>
    /\ ~input.colon2_token
    /\ out = << Tok("word", "<"), Tok("lifetime", "'a"), Tok("word", ","),
                Tok("expr_lit", "1"), Tok("word", ","),
                Tok("ty", "T"), Tok("word", ","),
                Tok("ident", "Item"), Tok("word", "="), Tok("ty", "U"),
                Tok("word", ","), Tok("word", ">") >>

\* C9: angle_bracketed_generic_arguments emits `::` first exactly when the
\* form carries the root marker, then one `<`, one `,` after every argument
\* (the last included) and one `>` at the end, also for an empty list.
C9_Wrapping ==
    op = "angle_bracketed_generic_arguments" =>
        LET open == IF input.colon2_token THEN 2 ELSE 1
        IN /\ Len(out) >= open + 1
           /\ (out[1] = Tok("word", "::")) <=> input.colon2_token
           /\ out[open] = Tok("word", "<")
           /\ out[Len(out)] = Tok("word", ">")
           /\ Count(out, "<") = 1
           /\ Count(out, ">") = 1
           /\ Count(out, "::") = open - 1
           /\ Count(out, ",") = Len(input.args)
           /\ (input.args # <<>> => out[Len(out) - 1] = Tok("word", ","))
           /\ (input.args = <<>> => Len(out) = open + 1)

\* C9 witness: an empty rooted list printed as ::<>, and a two-argument list
\* whose last argument is followed by a comma.
C9_Witness ==
    /\ op = "angle_bracketed_generic_arguments"
    /\ \/ /\ input.args = <<>>
          /\ out = << Tok("word", "::"), Tok("word", "<"), Tok("word", ">") >>
       \/ /\ input.args = << Tp("T"), Lt("'a") >>
          /\ out = << Tok("word", "<"), Tok("lifetime", "'a"),
                      Tok("word", ","), Tok("ty", "T"), Tok("word", ","),
                      Tok("word", ">") >>

\* C6: for a Const argument generic_argument adds braces exactly when the
\* expression is neither a literal nor a block: a literal and a block go to
\* their own printers as they are, any other expression is printed between
\* `{` and `}` by the generic expression printer.
C6_ConstBracing ==
    (op = "generic_argument" /\ input.variant = "Const") =>
        LET e == input.expr
            selfDelimiting == e.variant \in {"Lit", "Block"}
        IN /\ (e.variant = "Lit" => out = << Tok("expr_lit", e.node) >>)
           /\ (e.variant = "Block" => out = << Tok("expr_block", e.node) >>)
           /\ (~selfDelimiting =>
                 out = << Tok("word", "{"), Tok("expr", e.node),
                          Tok("word", "}") >>)
           /\ (Count(out, "{") = 1 /\ Count(out, "}") = 1) <=> ~selfDelimiting
           /\ (Count(out, "{") = 0 /\ Count(out, "}") = 0) <=> selfDelimiting

\* C6 witness: the binary expression N + 1 was printed as {N + 1}.
C6_Witness ==
    /\ op = "generic_argument"
    /\ input = Cn("Binary", "N + 1")
    /\ out = << Tok("word", "{"), Tok("expr", "N + 1"), Tok("word", "}") >>

\* the segments of a path as the segment printer prints them, the i-th one
\* preceded by `::` when sep(i) holds
Sep(b) == IF b THEN << Tok("word", "::") >> ELSE <<>>

PathRule(p, from, to) ==
    Flatten([ k \in 1..(to - from + 1) |->
                LET i == from + k - 1
                IN Sep(i # 1 \/ p.leading_colon)
                   \o path_segment(p.segments[i]) ])

Unconditional(p, from, to) ==
    Flatten([ k \in 1..(to - from + 1) |->
                Sep(TRUE) \o path_segment(p.segments[from + k - 1]) ])

\* what the segment printer alone emits for the segments of a path
SegmentsOnly(p) ==
    Flatten([ i \in 1..Len(p.segments) |-> path_segment(p.segments[i]) ])

\* C2: path emits the segments in order with `::` before a segment exactly
\* when it is not the first or the path is rooted, and none after the last:
\* n - 1 separators of its own for an unrooted and n for a rooted path.
C2_PathSeparators ==
    op = "path" =>
        LET n == Len(input.segments)
        IN /\ out = PathRule(input, 1, n)
           /\ n >= 1 =>
                /\ Count(out, "::") - Count(SegmentsOnly(input), "::")
                     = IF input.leading_colon THEN n ELSE n - 1
                /\ out[Len(out)] # Tok("word", "::")
                /\ (out[1] = Tok("word", "::")) <=> input.leading_colon

\* C2 witness: [A, B, A] printed unrooted as A::B::A or rooted as ::A::B::A.
C2_Witness ==
    /\ op = "path"
    /\ Len(input.segments) = 3
    /\ \/ /\ ~input.leading_colon
          /\ out = << Tok("ident", "A"), Tok("word", "::"), Tok("ident", "B"),
                      Tok("word", "::"), Tok("ident", "A") >>
       \/ /\ input.leading_colon
          /\ out = << Tok("word", "::"), Tok("ident", "A"), Tok("word", "::"),
                      Tok("ident", "B"), Tok("word", "::"),
                      Tok("ident", "A") >>

Clamped == min(qself_in.position, Len(input.segments))

\* C3: with a QSelf whose clamped position pos is positive, qpath emits `<`,
\* the type, `as`, the first pos segments under the separator rule of path,
\* `>` right after the pos-th segment, then every remaining segment preceded
\* by `::`; with pos equal to the segment count the output ends with `>`.
C3_QSelfInterface ==
    (op = "qpath" /\ qself_in.variant = "Some" /\ Clamped > 0) =>
        LET n == Len(input.segments)
        IN /\ out = << Tok("word", "<"), Tok("ty", qself_in.ty),
                       Tok("word", "as") >>
                    \o PathRule(input, 1, Clamped)
                    \o << Tok("word", ">") >>
                    \o Unconditional(input, Clamped + 1, n)
           /\ Clamped = n => out[Len(out)] = Tok("word", ">")

\* C3 witness: type T, segments [A, B], position 1 printed as <T as A>::B.
C3_Witness ==
    /\ op = "qpath"
    /\ qself_in = [variant |-> "Some", ty |-> "T", position |-> 1]
    /\ ~input.leading_colon
    /\ out = << Tok("word", "<"), Tok("ty", "T"), Tok("word", "as"),
                Tok("ident", "A"), Tok("word", ">"), Tok("word", "::"),
                Tok("ident", "B") >>

\* C4: with a QSelf whose clamped position is 0, qpath emits `<`, the type,
\* `>` at once and no `as`, then every segment preceded by `::`, the first
\* one too and whether or not the path is rooted.
C4_QSelfPositionZero ==
    (op = "qpath" /\ qself_in.variant = "Some" /\ Clamped = 0) =>
        /\ out = << Tok("word", "<"), Tok("ty", qself_in.ty),
                    Tok("word", ">") >>
                 \o Unconditional(input, 1, Len(input.segments))
        /\ Count(out, "as") = 0
        /\ Len(input.segments) >= 1 => out[4] = Tok("word", "::")

\* C4 witness: type T, position 0, segments [A] printed as <T>::A.
C4_Witness ==
    /\ op = "qpath"
    /\ qself_in = [variant |-> "Some", ty |-> "T", position |-> 0]
    /\ Len(input.segments) = 1
    /\ out = << Tok("word", "<"), Tok("ty", "T"), Tok("word", ">"),
                Tok("word", "::"), Tok("ident", "A") >>

\* C5: a QSelf position beyond the segment count is not rejected: qpath
\* emits for it exactly what it emits for the position equal to the segment
\* count.
C5_PositionClamped ==
    (op = "qpath" /\ qself_in.variant = "Some"
       /\ qself_in.position > Len(input.segments)) =>
        /\ out = qpath([qself_in EXCEPT !.position = Len(input.segments)],
                       input)
        /\ Count(out, ">") - Count(SegmentsOnly(input), ">") = 1

\* C5 witness: position 3 on the two segments [A, B] printed as <T as A::B>.
C5_Witness ==
    /\ op = "qpath"
    /\ qself_in = [variant |-> "Some", ty |-> "T", position |-> 3]
    /\ out = << Tok("word", "<"), Tok("ty", "T"), Tok("word", "as"),
                Tok("ident", "A"), Tok("word", "::"), Tok("ident", "B"),
                Tok("word", ">") >>

\* C8: without a QSelf qpath emits exactly what path emits for the same
\* path and no `<`, `as` or `>` of its own, for rooted and empty paths too.
C8_NoQSelfIsPath ==
    (op = "qpath" /\ qself_in.variant = "None") =>
        /\ out = path(input)
        /\ Count(out, "<") = Count(SegmentsOnly(input), "<")
        /\ Count(out, ">") = Count(SegmentsOnly(input), ">")
        /\ Count(out, "as") = 0
        /\ input.segments = <<>> => out = <<>>

\* C8 witness: the rooted path ::V<..>::A printed by qpath without a QSelf.
C8_Witness ==
    /\ op = "qpath"
    /\ qself_in.variant = "None"
    /\ input.leading_colon
    /\ Len(input.segments) = 2
    /\ input.segments[1].ident = "V"
    /\ out[1] = Tok("word", "::")
    /\ Len(out) > 4

\* the tokens that are not the words qpath and path emit themselves
Content(tokens) ==
    SelectSeq(tokens,
              LAMBDA t : t \notin { Tok("word", "<"), Tok("word", ">"),
                                    Tok("word", "as"), Tok("word", "::") })

\* C10: with a QSelf, for every segment count, root flag and position, qpath
\* hands every segment to the segment printer once and in order, emits one
\* `<` and one `>` of its own, and emits `as` once when the clamped position
\* is positive and not at all otherwise.
C10_QPathStructure ==
    (op = "qpath" /\ qself_in.variant = "Some") =>
        /\ Content(out) = << Tok("ty", qself_in.ty) >>
                            \o Content(SegmentsOnly(input))
        /\ Len(out) - Len(Content(out))
             = Len(SegmentsOnly(input)) - Len(Content(SegmentsOnly(input)))
               + 2 + (IF Clamped > 0 THEN 1 ELSE 0)
               + (IF Clamped > 0 /\ ~input.leading_colon
                    THEN Len(input.segments) - 1 ELSE Len(input.segments))
        /\ Count(out, "<") = 1 + Count(SegmentsOnly(input), "<")
        /\ Count(out, ">") = 1 + Count(SegmentsOnly(input), ">")
        /\ Count(out, "as") = IF Clamped > 0 THEN 1 ELSE 0

\* C10 witness: a three-segment path with arguments, split after its second
\* segment; and the empty path with a position past its end.
C10_Witness ==
    /\ op = "qpath"
    /\ qself_in.variant = "Some"
    /\ \/ /\ qself_in.position = 2
          /\ Len(input.segments) = 3
          /\ input.segments[2].ident = "W"
          /\ input.segments[3].ident = "V"
       \/ /\ qself_in.position = 1
          /\ input.segments = <<>>
          /\ out = << Tok("word", "<"), Tok("ty", "T"), Tok("word", ">") >>

====
